---- MODULE Spec2Model ----
(***************************************************************************)
(* State-machine model of the RachaAI WhatsApp microservice                *)
(* (src/README.md, lines 201-546, the service's index.js): the Supabase    *)
(* session-store adapter, the connection manager (connectToWhatsApp and    *)
(* the handlers it registers), the deliver-text operation and the two      *)
(* HTTP endpoints in front of it.                                          *)
(*                                                                         *)
(* The transport (Baileys socket) and the store (Supabase) are the         *)
(* environment: a session emits 'open' and 'close' while it is live and    *)
(* 'close' at most once (the library ends a socket once); a store call     *)
(* answers, returns an error object, or throws.                            *)
(***************************************************************************)
EXTENDS Naturals, Integers, Sequences, FiniteSets, Bags, TLC

VARIABLES
    env,          \* process.env: which of SUPABASE_URL / SUPABASE_SERVICE_KEY are set
    proc,         \* "boot" (module not yet evaluated), "listening", "stopping"
                  \* (the SIGINT handler awaits sock.logout()), "exited"
    sock,         \* the global `sock`: st = "null" models sock === null
    isConnected,  \* the global `isConnected`
    timers,       \* bag of pending setTimeout(() => connectToWhatsApp(), d), by d
    attempts,     \* bag of connectToWhatsApp() calls in progress, by await point
    loggedOut,    \* history: a 'close' with DisconnectReason.loggedOut was handled
    loaded,       \* history: loadState has been called in this run of the process
    store,        \* table whatsapp_auth: set of rows [session_id, auth_state]
    saves,        \* bag of upsert requests in flight: the state saveState was
                  \* called with (arg) and the request body made of it (body)
    persisted,    \* history: the state the last successful saveState was called
                  \* with, by this run or an earlier one
    log,          \* lines logged in the last turn by saveState, loadState or
                  \* the catch of connectToWhatsApp (<<>>: none)
    inflight,     \* bag of sendWhatsAppMessage calls suspended at an await
    resp,         \* the response a POST handler wrote in the last turn
                  \* (status 0: none)
    call          \* a utility function called on its own: argument, result
                  \* and number of applications (0: not called)

vars == <<env, proc, sock, isConnected, timers, attempts, loggedOut, loaded,
          store, saves, persisted, log, inflight, resp, call>>

connVars  == <<env, call, loaded, proc, sock, isConnected, timers, attempts, loggedOut>>

(***************************************************************************)
(* Bounds of the model (not program constants).                            *)
(***************************************************************************)
\* upsert requests that may be in flight at once
MaxSaves == 2
\* sendWhatsAppMessage calls that may be suspended at once
MaxInFlight == 2
\* the same, where the model sends requests of every shape
MaxPending == 1
\* length of the strings formatPhoneNumber is called on by itself
MaxLen == 4

(***************************************************************************)
(* Program constants.                                                      *)
(***************************************************************************)
SESSION_ID == "main"
API_KEY == "secret"
\* DisconnectReason.loggedOut of the transport library
LoggedOutCode == 401
ReconnectDelay == 5000
ConstructRetryDelay == 10000
DelayMin == 1000
DelayMax == 3000
\* Math.random() is drawn as k / RandomScale, 0 <= k < RandomScale
RandomScale == 1048576

(***************************************************************************)
(* JavaScript values.  Credential material is opaque: "c1", "c2" are       *)
(* credential objects as the transport holds them in memory (they carry    *)
(* Buffer fields), "j1", "j2" what JSON serialisation makes of them,       *)
(* "keystore" the object of functions makeCacheableSignalKeyStore returns, *)
(* "{}" the empty object.                                                  *)
(***************************************************************************)
Null == "null"
EmptyObj == "{}"
MemCreds == {"c1", "c2"}

\* truthiness of a credential value, as `x || y` tests it
Truthy(v) == v # Null

\* JSON.stringify then JSON.parse of one value: Buffers become plain
\* {type, data} objects, function-valued properties are dropped
JsonValue(v) ==
    CASE v = "c1" -> "j1"
      [] v = "c2" -> "j2"
      [] v = "keystore" -> EmptyObj
      [] OTHER -> v

\* the request body the store client sends for auth_state
JsonState(state) ==
    [creds |-> JsonValue(state.creds), keys |-> JsonValue(state.keys)]

NullState == [creds |-> Null, keys |-> Null]
EmptyState == [creds |-> EmptyObj, keys |-> EmptyObj]

(***************************************************************************)
(* The store: table whatsapp_auth, session_id UNIQUE.                      *)
(***************************************************************************)
Row(state) == [session_id |-> SESSION_ID, auth_state |-> state]

\* A plausible slip: a plain insert into a table without the UNIQUE constraint.
UpsertInsert(rows, row) == rows \cup {row}

\* .upsert(row, { onConflict: 'session_id' })
Upsert(rows, row) ==
    {r \in rows : r.session_id # row.session_id} \cup {row}

\* .select('auth_state').eq('session_id', SESSION_ID).single(), answered
SelectSingle(rows) ==
    LET hit == {r \in rows : r.session_id = SESSION_ID}
    IN  IF Cardinality(hit) = 1
        THEN [data |-> (CHOOSE r \in hit : TRUE).auth_state, error |-> "none"]
        ELSE [data |-> NullState, error |-> "PGRST116"]

\* how a store call ends: answered, answered with an error object
\* (connectivity, permission), or the client throws
StoreOutcomes == {"reply", "error", "throw"}

(***************************************************************************)
(* Session store adapter.                                                  *)
(***************************************************************************)
\* A plausible slip: only the missing row is degraded, other errors escape.
loadStateRethrows(outcome, rows) ==
    IF outcome = "throw" \/ outcome = "error"
    THEN [threw |-> TRUE, line |-> "load-error", state |-> NullState]
    ELSE LET r == SelectSingle(rows)
         IN  IF r.error = "PGRST116"
             THEN [threw |-> FALSE, line |-> "fresh", state |-> NullState]
             ELSE [threw |-> FALSE, line |-> "loaded", state |-> r.data]

\* loadState: [threw, line, state]; threw says an exception left the function
loadState(outcome, rows) ==
    IF outcome = "throw"
    THEN [threw |-> FALSE, line |-> "load-error", state |-> NullState]
    ELSE LET r == IF outcome = "error"
                  THEN [data |-> NullState, error |-> "OTHER"]
                  ELSE SelectSingle(rows)
         IN  IF r.error # "none"
             THEN IF r.error = "PGRST116"
                  THEN [threw |-> FALSE, line |-> "fresh", state |-> NullState]
                  ELSE [threw |-> FALSE, line |-> "load-error", state |-> NullState]
             ELSE [threw |-> FALSE, line |-> "loaded", state |-> r.data]

\* useSupabaseAuthState: the state handed to connectToWhatsApp
useSupabaseAuthState(outcome, rows) ==
    LET ls == loadState(outcome, rows)
    IN  [threw |-> ls.threw,
         line  |-> ls.line,
         state |-> [creds |-> IF Truthy(ls.state.creds) THEN ls.state.creds ELSE EmptyObj,
                    keys  |-> IF Truthy(ls.state.keys) THEN ls.state.keys ELSE EmptyObj]]

\* A plausible slip: the error is rethrown instead of logged.
saveStateRethrows(outcome, rows, state) ==
    IF outcome = "reply"
    THEN [threw |-> FALSE, line |-> "saved", rows |-> Upsert(rows, Row(state))]
    ELSE [threw |-> TRUE, line |-> "save-error", rows |-> rows]

\* saveState, at the completion of its upsert: [threw, line, rows]
saveState(outcome, rows, state) ==
    IF outcome = "reply"
    THEN [threw |-> FALSE, line |-> "saved", rows |-> Upsert(rows, Row(state))]
    ELSE [threw |-> FALSE, line |-> "save-error", rows |-> rows]

(***************************************************************************)
(* Connection manager.                                                     *)
(***************************************************************************)
Undefined == [t |-> "undefined", n |-> 0]
Num(n) == [t |-> "number", n |-> n]

\* lastDisconnect?.error?.output?.statusCode of a 'close' update
StatusCodes == {Undefined, Num(LoggedOutCode), Num(428)}

NoSock == [st |-> "null", authState |-> NullState, lastDisconnect |-> Undefined]

\* makeWASocket({ auth: { creds: state.creds, keys: makeCacheableSignalKeyStore(state.keys) } })
makeWASocket(state) ==
    [st |-> "connecting",
     authState |-> [creds |-> state.creds, keys |-> "keystore"],
     lastDisconnect |-> Undefined]

\* A plausible slip: an absent status code is taken for "do not reconnect".
shouldReconnectTruthy(statusCode) ==
    statusCode.t # "undefined" /\ statusCode # Num(LoggedOutCode)

\* const shouldReconnect = statusCode !== DisconnectReason.loggedOut
shouldReconnect(statusCode) == statusCode # Num(LoggedOutCode)

Schedule(bag, d) == bag (+) SetToBag({d})
Cancel(bag, d) == bag (-) SetToBag({d})

(***************************************************************************)
(* HTTP responses.  `at` is the connection state the turn ran under.       *)
(***************************************************************************)
NoBody == [number |-> [t |-> "undefined", v |-> <<>>],
           code |-> [t |-> "undefined", v |-> <<>>],
           type |-> [t |-> "undefined", v |-> <<>>],
           service |-> [t |-> "undefined", v |-> <<>>],
           value |-> [t |-> "undefined", v |-> <<>>],
           pixKey |-> [t |-> "undefined", v |-> <<>>]]
NoReq == [ep |-> "none", key |-> [t |-> "undefined", v |-> ""], json |-> "ok",
          body |-> NoBody]
NoResp == [req |-> NoReq, status |-> 0, error |-> "", number |-> <<>>,
           sendInvoked |-> 0, txCalls |-> 0,
           at |-> [isConnected |-> FALSE, sock |-> "null", loggedOut |-> FALSE]]


NoCall == [arg |-> <<>>, ret |-> <<>>, n |-> 0]

(***************************************************************************)
(* Initial state: the module has not been evaluated yet.  The environment  *)
(* and a row left by an earlier run are the inputs.                        *)
(***************************************************************************)
\* states an earlier run called saveState with: { creds: sock.authState.creds,
\* keys: sock.authState.keys }
SavedStates == {[creds |-> "c1", keys |-> "keystore"]}

InitProcess ==
    /\ env \in [url : BOOLEAN, key : BOOLEAN]
    /\ proc = "boot"
    /\ sock = NoSock
    /\ isConnected = FALSE
    /\ timers = EmptyBag
    /\ attempts = EmptyBag
    /\ loggedOut = FALSE
    /\ loaded = FALSE
    /\ \/ store = {} /\ persisted = NullState
       \/ \E m \in SavedStates : store = {Row(JsonState(m))} /\ persisted = m
    /\ saves = EmptyBag
    /\ log = <<>>
    /\ inflight = EmptyBag
    /\ resp = NoResp

Init == InitProcess /\ call = NoCall

\* the process is alive and its event loop runs callbacks
Running == proc \in {"listening", "stopping"}

\* a turn in which the adapter logs nothing / no handler writes a response
Quiet == log' = <<>>
NoResponse == resp' = NoResp

\* connectToWhatsApp() is entered: it suspends at `await fetchLatestBaileysVersion()`
connectToWhatsApp == attempts' = attempts (+) SetToBag({"version"})

\* A plausible slip: the environment is not validated.
StartupNoValidation ==
    /\ proc = "boot"
    /\ proc' = "listening"
    /\ connectToWhatsApp
    /\ UNCHANGED <<env, call, loaded, sock, isConnected, timers, loggedOut>>
    /\ UNCHANGED <<store, persisted, saves, inflight>>
    /\ Quiet
    /\ NoResponse

\* Module evaluation: environment validation, then app.listen and its callback.
Startup ==
    /\ proc = "boot"
    /\ IF ~env.url \/ ~env.key
       THEN /\ proc' = "exited"
            /\ UNCHANGED attempts
       ELSE /\ proc' = "listening"
            /\ connectToWhatsApp
    /\ UNCHANGED <<env, call, loaded, sock, isConnected, timers, loggedOut>>
    /\ UNCHANGED <<store, persisted, saves, inflight>>
    /\ Quiet
    /\ NoResponse

\* process.on('SIGINT', ...): without a session object the handler calls
\* process.exit(0) at once; with one, of whatever lifecycle state, it calls
\* sock.logout() and is suspended until that settles, while the event loop
\* goes on running other callbacks.  A further SIGINT runs the handler again.
\* An exited process runs nothing more: its timers never fire and the
\* answers to its requests are never seen.
Sigint ==
    /\ Running
    /\ proc' = IF sock.st = "null" THEN "exited" ELSE "stopping"
    /\ UNCHANGED <<env, call, loaded, sock, isConnected, timers, attempts, loggedOut>>
    /\ UNCHANGED <<store, persisted, saves, inflight>>
    /\ Quiet
    /\ NoResponse

\* how sock.logout() settles: it resolves once the transport has ended the
\* session (which emits 'close', with the logged-out code unless the
\* session had closed before), or it rejects
LogoutOutcomes == {"resolved", "rejected"}

\* sock.logout() settles: the handler goes on to process.exit(0); a
\* rejection leaves the async handler unhandled and ends the process too.
LogoutDone(outcome) ==
    /\ proc = "stopping"
    /\ outcome = "resolved" => sock.st = "closed"
    /\ proc' = "exited"
    /\ UNCHANGED <<env, call, loaded, sock, isConnected, timers, attempts, loggedOut>>
    /\ UNCHANGED <<store, persisted, saves, inflight>>
    /\ Quiet
    /\ NoResponse

\* The process is started again (after process.exit, a crash or a kill):
\* nothing of the old process is left but the table; an upsert whose
\* answer nobody awaits any more counts as applied if SaveDone came first.
Restart ==
    /\ proc \in {"listening", "stopping", "exited"}
    /\ proc' = "boot"
    /\ sock' = NoSock
    /\ isConnected' = FALSE
    /\ timers' = EmptyBag
    /\ attempts' = EmptyBag
    /\ loggedOut' = FALSE
    /\ loaded' = FALSE
    /\ saves' = EmptyBag
    /\ inflight' = EmptyBag
    /\ UNCHANGED <<env, call, store, persisted>>
    /\ Quiet
    /\ NoResponse

\* A reconnect timer fires: () => connectToWhatsApp()
TimerFire(d) ==
    /\ Running
    /\ BagIn(d, timers)
    /\ timers' = Cancel(timers, d)
    /\ connectToWhatsApp
    /\ UNCHANGED <<env, call, loaded, proc, sock, isConnected, loggedOut>>
    /\ UNCHANGED <<store, persisted, saves, inflight>>
    /\ Quiet
    /\ NoResponse

\* A plausible slip: the failure is logged and nothing is scheduled.
ConnectCatchNoRetry == UNCHANGED timers

\* catch (error) { ...; setTimeout(() => connectToWhatsApp(), 10000) }
ConnectCatch == timers' = Schedule(timers, ConstructRetryDelay)

\* A plausible slip: the store is read by the first attempt of a run only.
FetchVersionDoneLoadOnce(ok) ==
    /\ Running
    /\ BagIn("version", attempts)
    /\ IF ok
       THEN /\ attempts' = IF loaded
                           THEN attempts (-) SetToBag({"version"})
                           ELSE (attempts (-) SetToBag({"version"})) (+) SetToBag({"load"})
            /\ loaded' = TRUE
            /\ UNCHANGED timers
            /\ Quiet
       ELSE /\ attempts' = attempts (-) SetToBag({"version"})
            /\ ConnectCatch
            /\ log' = <<"connect-error: version">>
            /\ UNCHANGED loaded
    /\ UNCHANGED <<env, call, proc, sock, isConnected, loggedOut, store, persisted, saves, inflight>>
    /\ NoResponse

\* fetchLatestBaileysVersion() settles; on success useSupabaseAuthState()
\* is entered and suspends at the store query of loadState
FetchVersionDone(ok) ==
    /\ Running
    /\ BagIn("version", attempts)
    /\ IF ok
       THEN /\ attempts' = (attempts (-) SetToBag({"version"})) (+) SetToBag({"load"})
            /\ loaded' = TRUE
            /\ UNCHANGED timers
            /\ Quiet
       ELSE /\ attempts' = attempts (-) SetToBag({"version"})
            /\ ConnectCatch
            /\ log' = <<"connect-error: version">>
            /\ UNCHANGED loaded
    /\ UNCHANGED <<env, call, proc, sock, isConnected, loggedOut, store, persisted, saves, inflight>>
    /\ NoResponse

\* The store query settles: loadState returns, useSupabaseAuthState returns,
\* makeWASocket is called and the two handlers are registered (one turn).
LoadDone(outcome, sockOk) ==
    /\ Running
    /\ BagIn("load", attempts)
    /\ attempts' = attempts (-) SetToBag({"load"})
    /\ LET auth == useSupabaseAuthState(outcome, store)
       IN  IF auth.threw
           THEN /\ ConnectCatch
                /\ log' = <<auth.line, "connect-error: store">>
                /\ UNCHANGED sock
           ELSE IF ~sockOk
           THEN /\ ConnectCatch
                /\ log' = <<auth.line, "connect-error: socket">>
                /\ UNCHANGED sock
           ELSE /\ sock' = makeWASocket(auth.state)
                /\ log' = <<auth.line>>
                /\ UNCHANGED timers
    /\ UNCHANGED <<env, call, loaded, proc, isConnected, loggedOut, store, persisted, saves, inflight>>
    /\ NoResponse

\* connection.update handler, connection === 'open'
OnOpen ==
    /\ sock' = [sock EXCEPT !.st = "open"]
    /\ isConnected' = TRUE

\* A plausible slip: every close reconnects, logout included.
OnCloseAlwaysReconnect(statusCode) ==
    /\ sock' = [sock EXCEPT !.st = "closed", !.lastDisconnect = statusCode]
    /\ timers' = Schedule(timers, ReconnectDelay)
    /\ loggedOut' = (loggedOut \/ statusCode = Num(LoggedOutCode))
    /\ UNCHANGED isConnected

\* connection.update handler, connection === 'close'
OnClose(statusCode) ==
    /\ sock' = [sock EXCEPT !.st = "closed", !.lastDisconnect = statusCode]
    /\ loggedOut' = (loggedOut \/ statusCode = Num(LoggedOutCode))
    /\ IF shouldReconnect(statusCode)
       THEN /\ timers' = Schedule(timers, ReconnectDelay)
            /\ UNCHANGED isConnected
       ELSE /\ isConnected' = FALSE
            /\ UNCHANGED timers

\* the session emits connection.update { qr } or { connection: 'connecting' }:
\* the handler only logs
EvPairing ==
    /\ Running
    /\ sock.st = "connecting"
    /\ UNCHANGED <<env, call, loaded, proc, sock, isConnected, timers, attempts, loggedOut>>
    /\ UNCHANGED <<store, persisted, saves, inflight>>
    /\ Quiet
    /\ NoResponse

EvOpen ==
    /\ Running
    /\ sock.st = "connecting"
    /\ OnOpen
    /\ UNCHANGED <<env, call, loaded, proc, timers, attempts, loggedOut>>
    /\ UNCHANGED <<store, persisted, saves, inflight>>
    /\ Quiet
    /\ NoResponse

\* A transport that breaks the assumption: a session that has closed emits
\* 'close' again.
EvCloseRepeated(statusCode) ==
    /\ Running
    /\ sock.st \in {"connecting", "open", "closed"}
    /\ OnClose(statusCode)
    /\ UNCHANGED <<env, call, loaded, proc, attempts>>
    /\ UNCHANGED <<store, persisted, saves, inflight>>
    /\ Quiet
    /\ NoResponse

EvClose(statusCode) ==
    /\ Running
    /\ sock.st \in {"connecting", "open"}
    /\ OnClose(statusCode)
    /\ UNCHANGED <<env, call, loaded, proc, attempts>>
    /\ UNCHANGED <<store, persisted, saves, inflight>>
    /\ Quiet
    /\ NoResponse

\* saveCreds: saveState({ creds: sock.authState.creds, keys: sock.authState.keys })
\* up to the upsert request leaving the process
saveCreds ==
    saves' = saves (+) SetToBag({[arg |-> sock'.authState,
                                  body |-> JsonState(sock'.authState)]})

\* A plausible slip: the state is saved only while the session is connected.
EvCredsUpdateOpenOnly(c) ==
    /\ Running
    /\ sock.st # "null"
    /\ isConnected
    /\ BagCardinality(saves) < MaxSaves
    /\ sock' = [sock EXCEPT !.authState.creds = c]
    /\ saveCreds
    /\ UNCHANGED <<env, call, loaded, proc, isConnected, timers, attempts, loggedOut, store, persisted, inflight>>
    /\ Quiet
    /\ NoResponse

\* The session emits creds.update: the transport has put the new credentials
\* in sock.authState.creds; the registered saveCreds runs.
EvCredsUpdate(c) ==
    /\ Running
    /\ sock.st # "null"
    /\ BagCardinality(saves) < MaxSaves
    /\ sock' = [sock EXCEPT !.authState.creds = c]
    /\ saveCreds
    /\ UNCHANGED <<env, call, loaded, proc, isConnected, timers, attempts, loggedOut, store, persisted, inflight>>
    /\ Quiet
    /\ NoResponse

\* An upsert settles: the rest of saveState (and of saveCreds) runs.
SaveDone(s, outcome) ==
    /\ Running
    /\ BagIn(s, saves)
    /\ saves' = saves (-) SetToBag({s})
    /\ LET r == saveState(outcome, store, s.body)
       IN  /\ store' = r.rows
           /\ persisted' = IF r.line = "saved" THEN s.arg ELSE persisted
           /\ log' = <<r.line>>
           /\ IF r.threw
              THEN \* unhandled rejection in an event listener ends the process
                   proc' = "exited"
              ELSE UNCHANGED proc
    /\ UNCHANGED <<env, call, loaded, sock, isConnected, timers, attempts, loggedOut, inflight>>
    /\ NoResponse


(***************************************************************************)
(* Utility functions.  Strings that the code inspects are sequences of     *)
(* one-character strings.                                                  *)
(***************************************************************************)
Digits == {"0", "1", "2", "3", "4", "5", "6", "7", "8", "9"}
IsDigit(c) == c \in Digits
Suffix == <<"@", "s", ".", "w", "h", "a", "t", "s", "a", "p", "p", ".", "n", "e", "t">>
CountryCode == <<"5", "5">>

startsWith(s, prefix) ==
    /\ Len(s) >= Len(prefix)
    /\ SubSeq(s, 1, Len(prefix)) = prefix

\* String.prototype.substring(1)
substring1(s) == SubSeq(s, 2, Len(s))

\* A plausible slip: the country code is prepended without looking.
formatPhoneNumberAlwaysPrefix(number) ==
    LET stripped == SelectSeq(number, IsDigit)
        nozero   == IF startsWith(stripped, <<"0">>) THEN substring1(stripped) ELSE stripped
    IN  CountryCode \o nozero \o Suffix

\* A plausible slip: every leading zero is dropped, not just one.
RECURSIVE DropZeros(_)
DropZeros(s) == IF startsWith(s, <<"0">>) THEN DropZeros(substring1(s)) ELSE s

formatPhoneNumberAllZeros(number) ==
    LET nozero  == DropZeros(SelectSeq(number, IsDigit))
        cleaned == IF ~startsWith(nozero, CountryCode) THEN CountryCode \o nozero ELSE nozero
    IN  cleaned \o Suffix

formatPhoneNumber(number) ==
    LET stripped == SelectSeq(number, IsDigit)
        nozero   == IF startsWith(stripped, <<"0">>) THEN substring1(stripped) ELSE stripped
        cleaned  == IF ~startsWith(nozero, CountryCode) THEN CountryCode \o nozero ELSE nozero
    IN  cleaned \o Suffix

\* characters of the strings formatPhoneNumber is called on by itself: a
\* zero, the digit of the country code, another digit, a non-digit
Alphabet == {"0", "5", "1", "-"}
Strings(n) == UNION {[1..k -> Alphabet] : k \in 0..n}

\* formatPhoneNumber(x) is called
CallFormat ==
    /\ call.n = 0
    /\ call' = [call EXCEPT !.ret = formatPhoneNumber(call.arg), !.n = 1]
    /\ UNCHANGED <<env, proc, sock, isConnected, timers, attempts, loggedOut, loaded>>
    /\ UNCHANGED <<store, saves, persisted, log, inflight, resp>>

\* formatPhoneNumber is called on its own result
CallFormatAgain ==
    /\ call.n = 1
    /\ call' = [call EXCEPT !.ret = formatPhoneNumber(call.ret), !.n = 2]
    /\ UNCHANGED <<env, proc, sock, isConnected, timers, attempts, loggedOut, loaded>>
    /\ UNCHANGED <<store, saves, persisted, log, inflight, resp>>

\* A plausible slip: the lower bound is not added.
randomDelayNoMin(k) == (k * (DelayMax - DelayMin + 1)) \div RandomScale

\* Math.floor(Math.random() * (max - min + 1)) + min, Math.random() = k / RandomScale
randomDelay(k) == ((k * (DelayMax - DelayMin + 1)) \div RandomScale) + DelayMin

\* values of Math.random() the model draws: least, middle, greatest
RandomDraws == {0, RandomScale \div 2, RandomScale - 1}

(***************************************************************************)
(* HTTP layer: request values.                                             *)
(***************************************************************************)
Undef == [t |-> "undefined", v |-> <<>>]
Str(s) == [t |-> "string", v |-> s]
JsonNum(s) == [t |-> "number", v |-> s]

\* !x for a body field
Falsy(x) ==
    \/ x.t = "undefined"
    \/ x.t = "string" /\ x.v = <<>>
    \/ x.t = "number" /\ x.v = <<"0">>

NoHeader == [t |-> "undefined", v |-> ""]
Header(s) == [t |-> "string", v |-> s]

\* the body parser's error for a body that is not JSON
MsgParse == "Unexpected end of JSON input"
MsgUnauthorized == "Unauthorized - Invalid API Key"
MsgMissingOtp == "Missing required fields: number, code"
MsgMissingBilling == "Missing required fields: number, type, service, value, pixKey"
MsgInvalidType == "Invalid type. Use: D-1, D0, or D+1"
MsgNotConnected == "WhatsApp not connected"
MsgTypeError == "number.replace is not a function"
\* messages of errors the transport's sendMessage may reject with
TransportErrors == {"Connection Closed"}

TypeD1 == <<"D", "-", "1">>
TypeD0 == <<"D", "0">>
TypeDp1 == <<"D", "+", "1">>

\* app.use(express.json()) passes the request on to the route: the body
\* was parsed.  Otherwise the parser's error is answered 400 by the
\* framework's error handler and no route middleware runs.
expressJson(req) == req.json = "ok"

\* validateApiKey passes the request on: !(!apiKey || apiKey !== API_KEY)
validateApiKey(apiKey) ==
    ~(apiKey.t = "undefined" \/ apiKey.v = "" \/ apiKey.v # API_KEY)

\* A plausible slip: the code field is not checked.
validateBodyNoCode(req) ==
    IF req.ep = "send-otp"
    THEN IF Falsy(req.body.number) THEN MsgMissingOtp ELSE ""
    ELSE IF \/ Falsy(req.body.number) \/ Falsy(req.body.type) \/ Falsy(req.body.service)
            \/ Falsy(req.body.value) \/ Falsy(req.body.pixKey)
         THEN MsgMissingBilling
         ELSE ""

\* Body validation of the two endpoints: "" when the request is accepted,
\* otherwise the error text of the 400 response.
validateBody(req) ==
    IF req.ep = "send-otp"
    THEN IF Falsy(req.body.number) \/ Falsy(req.body.code)
         THEN MsgMissingOtp
         ELSE ""
    ELSE IF \/ Falsy(req.body.number) \/ Falsy(req.body.type) \/ Falsy(req.body.service)
            \/ Falsy(req.body.value) \/ Falsy(req.body.pixKey)
         THEN MsgMissingBilling
         ELSE IF req.body.type \in {Str(TypeD1), Str(TypeD0), Str(TypeDp1)}
              THEN ""
              ELSE MsgInvalidType

\* the text handed to sendWhatsAppMessage: template and interpolated values
message(req) ==
    IF req.ep = "send-otp"
    THEN [template |-> <<"otp">>, args |-> <<req.body.code>>]
    ELSE [template |-> req.body.type.v,
          args |-> <<req.body.service, req.body.value, req.body.pixKey>>]

(***************************************************************************)
(* HTTP layer: the requests the model sends.                               *)
(***************************************************************************)
Number1 == Str(<<"0", "1", "1", "-", "9">>)
OtpBody(number, code) == [NoBody EXCEPT !.number = number, !.code = code]
BillingBody(number, type, service, value, pixKey) ==
    [NoBody EXCEPT !.number = number, !.type = type, !.service = service,
                   !.value = value, !.pixKey = pixKey]

Code1 == Str(<<"1", "2">>)
Service1 == Str(<<"N">>)
Value1 == Str(<<"1", "4", ".", "9", "0">>)
PixKey1 == Str(<<"e", "@", "x">>)

OtpBodies ==
    { OtpBody(Number1, Code1),
      OtpBody(Undef, Code1),
      OtpBody(Number1, Undef),
      OtpBody(Str(<<>>), Code1),
      OtpBody(JsonNum(<<"1", "1">>), Code1) }

BillingBodies ==
    { BillingBody(Number1, Str(t), Service1, Value1, PixKey1) :
        t \in {TypeD1, TypeD0, TypeDp1, <<"D", "2">>} }
    \cup
    { BillingBody(Undef, Str(TypeD0), Service1, Value1, PixKey1),
      BillingBody(Number1, Undef, Service1, Value1, PixKey1),
      BillingBody(Number1, Str(TypeD0), Undef, Value1, PixKey1),
      BillingBody(Number1, Str(TypeD0), Service1, Undef, PixKey1),
      BillingBody(Number1, Str(TypeD0), Service1, Value1, Undef) }

BadKeys == {NoHeader, Header(""), Header("wrong")}

Request(ep, key, body) == [ep |-> ep, key |-> key, json |-> "ok", body |-> body]
\* a request whose body is not parseable JSON: no field reaches the handler
Malformed(ep, key) == [ep |-> ep, key |-> key, json |-> "malformed", body |-> NoBody]

Requests ==
    { Request("send-otp", Header(API_KEY), b) : b \in OtpBodies }
    \cup
    { Request("notify-billing", Header(API_KEY), b) : b \in BillingBodies }
    \cup
    { Request("send-otp", k, OtpBody(Number1, Code1)) : k \in BadKeys }
    \cup
    { Request("send-otp", Header("wrong"), OtpBody(Number1, Undef)),
      Request("notify-billing", NoHeader,
              BillingBody(Number1, Str(TypeD0), Service1, Value1, PixKey1)),
      Request("notify-billing", Header("wrong"),
              BillingBody(Number1, Str(<<"D", "2">>), Service1, Value1, PixKey1)) }
    \cup
    { Malformed("send-otp", Header(API_KEY)),
      Malformed("send-otp", NoHeader),
      Malformed("notify-billing", Header("wrong")) }

(***************************************************************************)
(* Deliver-text operation and the POST handlers.                           *)
(***************************************************************************)
\* GET /health: the `connected` field of the answer
health == isConnected

\* the connection state a handler's turn runs under
Connectivity == [isConnected |-> isConnected, sock |-> sock.st, loggedOut |-> loggedOut]

\* A plausible slip: the gate looks at the session object only.
NotConnectedSockOnly == sock.st = "null"

\* if (!isConnected || !sock) throw new Error('WhatsApp not connected')
NotConnected == ~isConnected \/ sock.st = "null"

Respond(req, status, error, number, sendInvoked, txCalls, at) ==
    resp' = [req |-> req, status |-> status, error |-> error, number |-> number,
             sendInvoked |-> sendInvoked, txCalls |-> txCalls, at |-> at]

\* sendWhatsAppMessage(number, message) up to its first suspension, inside
\* the handler's try block: either an exception reaches the handler's catch
\* (500) or the call is suspended in randomDelay()
sendWhatsAppMessage(req) ==
    IF NotConnected
    THEN /\ Respond(req, 500, MsgNotConnected, <<>>, 1, 0, Connectivity)
         /\ UNCHANGED inflight
    ELSE IF req.body.number.t # "string"
    THEN /\ Respond(req, 500, MsgTypeError, <<>>, 1, 0, Connectivity)
         /\ UNCHANGED inflight
    ELSE /\ \E k \in RandomDraws :
              inflight' = inflight (+) SetToBag({
                [req |-> req,
                 formattedNumber |-> formatPhoneNumber(req.body.number.v),
                 message |-> message(req),
                 pc |-> "delay",
                 delay |-> randomDelay(k),
                 to |-> <<>>,
                 calls |-> 0]})
         /\ NoResponse

\* A request arrives at POST /v1/send-otp or POST /v1/notify-billing:
\* express.json(), validateApiKey, then the handler up to its response or
\* first suspension.
Dispatch(req) ==
    /\ Running
    /\ IF ~expressJson(req)
       THEN /\ Respond(req, 400, MsgParse, <<>>, 0, 0, Connectivity)
            /\ UNCHANGED inflight
       ELSE IF ~validateApiKey(req.key)
       THEN /\ Respond(req, 401, MsgUnauthorized, <<>>, 0, 0, Connectivity)
            /\ UNCHANGED inflight
       ELSE IF validateBody(req) # ""
       THEN /\ Respond(req, 400, validateBody(req), <<>>, 0, 0, Connectivity)
            /\ UNCHANGED inflight
       ELSE sendWhatsAppMessage(req)
    /\ UNCHANGED connVars
    /\ UNCHANGED <<store, persisted, saves>>
    /\ Quiet

\* A plausible slip: the transmission is not awaited, the handler answers
\* as soon as the call is made.
DelayElapsedNoAwait(e) ==
    /\ Running
    /\ BagIn(e, inflight)
    /\ e.pc = "delay"
    /\ inflight' = inflight (-) SetToBag({e})
    /\ Respond(e.req, 200, "", formatPhoneNumber(e.req.body.number.v),
               1, e.calls + 1, Connectivity)
    /\ UNCHANGED connVars
    /\ UNCHANGED <<store, persisted, saves>>
    /\ Quiet

\* A plausible slip: transmissions are serialised, a call waits while
\* another one is being transmitted.
DelayElapsedSerial(e) ==
    /\ Running
    /\ BagIn(e, inflight)
    /\ e.pc = "delay"
    /\ \A o \in BagToSet(inflight) : o.pc # "sending"
    /\ inflight' = (inflight (-) SetToBag({e}))
                   (+) SetToBag({[e EXCEPT !.pc = "sending",
                                           !.to = e.formattedNumber,
                                           !.calls = e.calls + 1]})
    /\ NoResponse
    /\ UNCHANGED connVars
    /\ UNCHANGED <<store, persisted, saves>>
    /\ Quiet

\* randomDelay() resolves: await sock.sendMessage(formattedNumber, { text: message })
\* (`to` is the address the call is made to)
DelayElapsed(e) ==
    /\ Running
    /\ BagIn(e, inflight)
    /\ e.pc = "delay"
    /\ inflight' = (inflight (-) SetToBag({e}))
                   (+) SetToBag({[e EXCEPT !.pc = "sending",
                                           !.to = e.formattedNumber,
                                           !.calls = e.calls + 1]})
    /\ NoResponse
    /\ UNCHANGED connVars
    /\ UNCHANGED <<store, persisted, saves>>
    /\ Quiet

\* A plausible slip: a rejected transmission is tried again.
SendSettledRetry(e, outcome) ==
    /\ Running
    /\ BagIn(e, inflight)
    /\ e.pc = "sending"
    /\ IF outcome = "ok"
       THEN /\ inflight' = inflight (-) SetToBag({e})
            /\ Respond(e.req, 200, "", formatPhoneNumber(e.req.body.number.v),
                       1, e.calls, Connectivity)
       ELSE IF e.calls < 2
       THEN /\ inflight' = (inflight (-) SetToBag({e}))
                           (+) SetToBag({[e EXCEPT !.calls = e.calls + 1]})
            /\ NoResponse
       ELSE /\ inflight' = inflight (-) SetToBag({e})
            /\ Respond(e.req, 500, outcome, <<>>, 1, e.calls, Connectivity)
    /\ UNCHANGED connVars
    /\ UNCHANGED <<store, persisted, saves>>
    /\ Quiet

\* sock.sendMessage settles: the handler answers 200 with the normalized
\* number, or its catch answers 500 with the error's message.
SendSettled(e, outcome) ==
    /\ Running
    /\ BagIn(e, inflight)
    /\ e.pc = "sending"
    /\ inflight' = inflight (-) SetToBag({e})
    /\ IF outcome = "ok"
       THEN Respond(e.req, 200, "", formatPhoneNumber(e.req.body.number.v),
                    1, e.calls, Connectivity)
       ELSE Respond(e.req, 500, outcome, <<>>, 1, e.calls, Connectivity)
    /\ UNCHANGED connVars
    /\ UNCHANGED <<store, persisted, saves>>
    /\ Quiet

(***************************************************************************)
(* Specifications.                                                         *)
(***************************************************************************)
\* connection lifecycle
NextLife ==
    \/ Startup
    \/ \E d \in {ReconnectDelay, ConstructRetryDelay} : TimerFire(d)
    \/ \E ok \in BOOLEAN : FetchVersionDone(ok)
    \/ \E o \in StoreOutcomes, sockOk \in BOOLEAN : LoadDone(o, sockOk)
    \/ EvPairing
    \/ EvOpen
    \/ \E code \in StatusCodes : EvClose(code)
    \/ Sigint
    \/ \E o \in LogoutOutcomes : LogoutDone(o)

\* credential persistence
NextCreds ==
    \/ \E c \in MemCreds : EvCredsUpdate(c)
    \/ \E b \in BagToSet(saves), o \in StoreOutcomes : SaveDone(b, o)

\* HTTP requests, at most `cap` of them suspended at once
NextHttp(requests, cap) ==
    \/ \E req \in requests : Dispatch(req) /\ BagCardinality(inflight') <= cap
    \/ \E e \in BagToSet(inflight) : DelayElapsed(e)
    \/ \E e \in BagToSet(inflight), o \in {"ok"} \cup TransportErrors : SendSettled(e, o)

Next == NextLife \/ NextCreds \/ NextHttp(Requests, MaxInFlight)

\* the whole service
Spec == Init /\ [][Next]_vars

\* The connection manager and the session store, no HTTP traffic.
NextConn == NextLife \/ NextCreds
SpecConn == Init /\ [][NextConn]_vars

\* The HTTP layer over the connection manager: a configured process, an
\* empty store that answers, no credential rotation.
InitHttp == Init /\ env = [url |-> TRUE, key |-> TRUE] /\ store = {}

NextLifeHttp ==
    \/ Startup
    \/ \E d \in {ReconnectDelay, ConstructRetryDelay} : TimerFire(d)
    \/ \E ok \in BOOLEAN : FetchVersionDone(ok)
    \/ \E sockOk \in BOOLEAN : LoadDone("reply", sockOk)
    \/ EvPairing
    \/ EvOpen
    \/ \E code \in StatusCodes : EvClose(code)
    \/ Sigint
    \/ \E o \in LogoutOutcomes : LogoutDone(o)

NextServe == NextLifeHttp \/ NextHttp(Requests, MaxPending)
SpecHttp == InitHttp /\ [][NextServe]_vars

\* The connection manager and the session store over several runs of the
\* process.
NextResume == NextConn \/ Restart
SpecResume == Init /\ [][NextResume]_vars

\* Concurrent callers: two well-formed requests, up to MaxInFlight calls of
\* sendWhatsAppMessage suspended at once.
SendRequests ==
    { Request("send-otp", Header(API_KEY), OtpBody(Number1, Code1)),
      Request("notify-billing", Header(API_KEY),
              BillingBody(Number1, Str(TypeD0), Service1, Value1, PixKey1)) }
NextSend == NextLifeHttp \/ NextHttp(SendRequests, MaxInFlight)
SpecSend == InitHttp /\ [][NextSend]_vars

\* formatPhoneNumber by itself, on every string of at most MaxLen characters
InitFormat ==
    /\ InitProcess
    /\ env = [url |-> TRUE, key |-> TRUE]
    /\ store = {}
    /\ call \in {[arg |-> x, ret |-> <<>>, n |-> 0] : x \in Strings(MaxLen)}
NextFormat == CallFormat \/ CallFormatAgain
SpecFormat == InitFormat /\ [][NextFormat]_vars

\* The connection manager over a store that answers every upsert: saves
\* complete successfully, in whatever order the store applies them.
NextSaves ==
    \/ NextLife
    \/ \E c \in MemCreds : EvCredsUpdate(c)
    \/ \E b \in BagToSet(saves) : SaveDone(b, "reply")
SpecSaves == Init /\ [][NextSaves]_vars

\* the same with timers that fire: setTimeout callbacks are eventually run
SpecConnFair ==
    SpecConn /\ WF_vars(\E d \in {ReconnectDelay, ConstructRetryDelay} : TimerFire(d))

(***************************************************************************)
(* Properties.                                                             *)
(***************************************************************************)
\* a step in which sendWhatsAppMessage is entered: it either fails before
\* its first suspension (a response with no transmission) or is suspended
SendInvokedInStep ==
    \/ resp'.sendInvoked = 1 /\ resp'.txCalls = 0
    \/ BagCardinality(inflight') > BagCardinality(inflight)

\* C1: whenever send is invoked while isConnected is false or there is no
\* session object, it fails with 'WhatsApp not connected', nothing is
\* suspended in the delay or transmitted, and isConnected and sock are
\* left as they were.
C1_SendNotConnected ==
    [][ (SendInvokedInStep /\ (~isConnected \/ sock.st = "null"))
        => /\ resp'.status = 500
           /\ resp'.error = MsgNotConnected
           /\ resp'.txCalls = 0
           /\ inflight' = inflight
           /\ isConnected' = isConnected
           /\ sock' = sock ]_vars

C1_Witness ==
    /\ resp.sendInvoked = 1
    /\ resp.error = MsgNotConnected
    /\ ~resp.at.isConnected
    /\ resp.at.sock = "connecting"

\* C2: the Connected flag (what GET /health reports) is true only if the
\* current session has emitted 'open' and has not since emitted 'close'.
C2_FlagOnlyWhileOpen == health => sock.st = "open"

\* a 'close' update is handled in this step
CloseHandled == sock.st # "closed" /\ sock'.st = "closed"

\* C3: a handled 'close' with the logged-out status code schedules no
\* reconnect timer; with any other status code, an absent one included, it
\* schedules exactly one timer of 5 seconds.
C3_ReconnectScheduling ==
    [][ CloseHandled
        => IF sock'.lastDisconnect = Num(LoggedOutCode)
           THEN timers' = timers
           ELSE timers' = timers (+) SetToBag({ReconnectDelay}) ]_vars

C3_Witness ==
    /\ sock.st = "closed"
    /\ sock.lastDisconnect = Undefined
    /\ timers = SetToBag({ReconnectDelay})

\* C4: once a logged-out 'close' has been handled, no reconnect timer is
\* pending and no connection attempt is in progress ever again, the flag
\* is false from then on, and every send invoked afterwards fails with
\* 'WhatsApp not connected'.
C4_LogoutTerminal ==
    [][ /\ loggedOut' => (~isConnected' /\ timers' = EmptyBag /\ attempts' = EmptyBag)
        /\ (loggedOut /\ SendInvokedInStep)
           => (resp'.status = 500 /\ resp'.error = MsgNotConnected
               /\ inflight' = inflight) ]_vars

C4_Witness ==
    /\ loggedOut
    /\ resp.at.loggedOut
    /\ resp.sendInvoked = 1
    /\ resp.error = MsgNotConnected

\* C5: with timers that fire, whenever the running service has no live
\* session and has not been logged out (after a non-logout 'close', after a
\* failed session construction), a connection attempt eventually runs,
\* unless the process is ended first (SIGINT).
C5_EventuallyReconnects ==
    (Running /\ ~loggedOut /\ sock.st \notin {"connecting", "open"})
        ~> (attempts # EmptyBag \/ proc = "exited")

C5_Witness ==
    /\ sock.st = "closed"
    /\ ~loggedOut
    /\ BagIn("version", attempts)

\* a store query of loadState settles in this step
LoadSettled == CopiesIn("load", attempts') < CopiesIn("load", attempts)

\* C6: load never fails to its caller: on a missing row, on any other
\* retrieval error and when the client throws, it yields the state with
\* both sub-records empty, and the attempt goes on to create the session
\* with empty credentials.
C6_LoadNeverFails ==
    [][ /\ \A o \in {"error", "throw"} :
             /\ ~useSupabaseAuthState(o, store').threw
             /\ useSupabaseAuthState(o, store').state = EmptyState
        /\ SelectSingle(store').error = "PGRST116"
           => /\ ~useSupabaseAuthState("reply", store').threw
              /\ useSupabaseAuthState("reply", store').state = EmptyState
        /\ LoadSettled
           => /\ log' # <<>>
              /\ Len(log') = 2 => log'[2] = "connect-error: socket"
              /\ (Len(log') = 1 /\ log'[1] \in {"fresh", "load-error"})
                 => (sock'.st = "connecting" /\ sock'.authState.creds = EmptyObj) ]_vars

C6_Witness ==
    /\ log = <<"load-error">>
    /\ store # {}
    /\ sock.st = "connecting"
    /\ sock.authState.creds = EmptyObj

\* C7: a failed save is not propagated: the process keeps running, and the
\* flag, the session object, the timers, the attempts and the stored row
\* are as before.
C7_SaveFailureContained ==
    [][ log' = <<"save-error">>
        => UNCHANGED <<proc, isConnected, sock, timers, attempts, store>> ]_vars

C7_Witness ==
    /\ log = <<"save-error">>
    /\ proc = "listening"
    /\ isConnected
    /\ sock.st = "open"
    /\ store # {}

\* the X-API-Key header is absent or differs from the configured key
KeyBad(req) == req.key.t = "undefined" \/ req.key.v # API_KEY

\* C8: a request whose X-API-Key is absent or wrong is answered 401 whatever
\* its body and the connection state, send is not invoked, nothing is
\* transmitted or suspended, and flag, session, store, timers and attempts
\* are unchanged.
C8_UnauthorizedNoEffect ==
    [][ /\ \A e \in BagToSet(inflight') : ~KeyBad(e.req)
        /\ (resp'.status # 0 /\ KeyBad(resp'.req))
           => /\ resp'.status = 401
              /\ resp'.sendInvoked = 0
              /\ resp'.txCalls = 0
              /\ UNCHANGED <<isConnected, sock, store, saves, inflight,
                             timers, attempts>> ]_vars

\* C8, as far as the code goes: the same for the requests whose body the
\* JSON parser accepted; the others are answered 400 by the parser, before
\* the key is looked at, and equally without effect.
C8_UnauthorizedAfterParsing ==
    [][ /\ \A e \in BagToSet(inflight') : ~KeyBad(e.req)
        /\ (resp'.status # 0 /\ KeyBad(resp'.req))
           => /\ resp'.status = IF resp'.req.json = "ok" THEN 401 ELSE 400
              /\ resp'.sendInvoked = 0
              /\ resp'.txCalls = 0
              /\ UNCHANGED <<isConnected, sock, store, saves, inflight,
                             timers, attempts>> ]_vars

\* a required field of the endpoint is missing from the body
MissingField(req) ==
    IF req.ep = "send-otp"
    THEN req.body.number.t = "undefined" \/ req.body.code.t = "undefined"
    ELSE \/ req.body.number.t = "undefined" \/ req.body.type.t = "undefined"
         \/ req.body.service.t = "undefined" \/ req.body.value.t = "undefined"
         \/ req.body.pixKey.t = "undefined"

BadRequest(req) ==
    \/ MissingField(req)
    \/ /\ req.ep = "notify-billing"
       /\ req.body.type \notin {Str(TypeD1), Str(TypeD0), Str(TypeDp1)}

\* C9: an authenticated request with a missing required field or a billing
\* type outside {D-1, D0, D+1} is answered 400 and never reaches send.
C9_BadRequestRejected ==
    /\ \A e \in BagToSet(inflight) : ~BadRequest(e.req)
    /\ (resp.status # 0 /\ ~KeyBad(resp.req) /\ BadRequest(resp.req))
       => (resp.status = 400 /\ resp.sendInvoked = 0 /\ resp.txCalls = 0)

C9_Witness ==
    /\ resp.status = 400
    /\ resp.error = MsgInvalidType
    /\ resp.at.isConnected
    /\ resp.at.sock = "open"

\* C10: a request causes at most one sendMessage call, and a failed send is
\* answered 500 with the error's message, its call gone from the process.
C10_NoRetry ==
    /\ \A e \in BagToSet(inflight) :
          /\ e.pc = "delay" => e.calls = 0
          /\ e.pc = "sending" => e.calls = 1
    /\ resp.txCalls <= 1
    /\ (resp.sendInvoked = 1 /\ resp.status # 200)
       => /\ resp.status = 500
          /\ \/ resp.txCalls = 0 /\ resp.error \in {MsgNotConnected, MsgTypeError}
             \/ resp.txCalls = 1 /\ resp.error \in TransportErrors

C10_Witness ==
    /\ resp.status = 500
    /\ resp.error \in TransportErrors
    /\ resp.txCalls = 1

\* C11: a 200 response is written only in the step in which the single
\* sendMessage call of that request, made in an earlier step to the
\* normalized number, completes without error; the response carries that
\* same normalized address and the call is gone from the process.
C11_SuccessAfterOneSend ==
    [][ resp'.status = 200
        => \E e \in BagToSet(inflight) :
              /\ e.req = resp'.req
              /\ e.pc = "sending"
              /\ e.calls = 1
              /\ e.to = formatPhoneNumber(e.req.body.number.v)
              /\ resp'.number = e.to
              /\ resp'.error = ""
              /\ resp'.txCalls = 1
              /\ inflight' = inflight (-) SetToBag({e}) ]_vars

C11_Witness ==
    /\ resp.status = 200
    /\ resp.req.ep = "notify-billing"
    /\ resp.number = CountryCode \o <<"1", "1", "9">> \o Suffix
    /\ resp.txCalls = 1

\* C12: the state is stored and retrieved unmodified: what a load retrieves
\* after a successful save is the state save was called with, and the
\* credentials a (re)started process hands to the transport when it
\* constructs the session from the stored row are those of the last
\* successful save.
C12_ResumeUnmodified ==
    [][ /\ log' = <<"saved">>
           => useSupabaseAuthState("reply", store').state = persisted'
        /\ (LoadSettled /\ log' = <<"loaded">>)
           => sock'.authState.creds = persisted.creds ]_vars

\* the rows of the table that belong to the session
SessionRows(rows) == {r \in rows : r.session_id = SESSION_ID}

\* C13: the table never holds more than one row for the session; a
\* successful save leaves exactly one row whose snapshot is the passed state,
\* as serialised, with nothing of the old snapshot in it; and a row that
\* exists is never removed.
C13_SingleRowOverwrite ==
    /\ [](Cardinality(SessionRows(store)) <= 1)
    /\ [][ /\ log' = <<"saved">>
              => \E s \in BagToSet(saves) :
                    /\ saves' = saves (-) SetToBag({s})
                    /\ store' = {Row(JsonState(s.arg))}
           /\ SessionRows(store) # {} => SessionRows(store') # {} ]_vars

C13_Witness ==
    /\ log = <<"saved">>
    /\ persisted.creds = "c2"
    /\ store = {Row([creds |-> "j2", keys |-> EmptyObj])}

\* C14: formatPhoneNumber returns an address for every string, and applied
\* to its own result it returns that result again.
C14_FormatIdempotent ==
    /\ call.n >= 1
       => /\ Len(call.ret) >= Len(CountryCode) + Len(Suffix)
          /\ SubSeq(call.ret, Len(call.ret) - Len(Suffix) + 1, Len(call.ret)) = Suffix
    /\ call.n = 1 => formatPhoneNumber(call.ret) = call.ret
    /\ call.n = 2 => call.ret = formatPhoneNumber(call.arg)

C14_Witness ==
    /\ call.n = 2
    /\ call.arg = <<"0", "5", "-", "1">>
    /\ call.ret = <<"5", "5", "5", "1">> \o Suffix

\* the digits of a string, in order
RECURSIVE DigitsOf(_)
DigitsOf(x) ==
    IF x = <<>> THEN <<>>
    ELSE IF Head(x) \in Digits THEN <<Head(x)>> \o DigitsOf(Tail(x))
    ELSE DigitsOf(Tail(x))

\* what the claim says the address of x is
ExpectedAddress(x) ==
    LET d == DigitsOf(x)
        z == IF d # <<>> /\ Head(d) = "0" THEN Tail(d) ELSE d
        c == IF Len(z) >= 2 /\ z[1] = "5" /\ z[2] = "5" THEN z ELSE <<"5", "5">> \o z
    IN  c \o Suffix

\* C15: the address of a string is its digits, less one leading zero, with
\* 55 in front unless they start with 55 already, then the suffix once; so a
\* string with a single leading zero has the address of the string without
\* it, and a digit string that starts with 55 gets the suffix and nothing
\* else.
C15_FormatExact ==
    call.n = 1
    => /\ call.ret = ExpectedAddress(call.arg)
       /\ Cardinality({i \in 1..Len(call.ret) : call.ret[i] = "@"}) = 1
       /\ (DigitsOf(call.arg) = <<>> \/ Head(DigitsOf(call.arg)) # "0")
          => formatPhoneNumber(<<"0">> \o call.arg) = call.ret
       /\ (DigitsOf(call.arg) = call.arg /\ Len(call.arg) >= 2
           /\ call.arg[1] = "5" /\ call.arg[2] = "5")
          => call.ret = call.arg \o Suffix

C15_Witness ==
    /\ call.n = 1
    /\ call.arg = <<"0", "0", "-", "1">>
    /\ call.ret = <<"5", "5", "0", "1">> \o Suffix

\* a caller's send is accepted: its call is suspended in its own delay
AcceptsSend(req) ==
    Dispatch(req) /\ BagCardinality(inflight') = BagCardinality(inflight) + 1

\* C16: sends are not serialised.  While connected a further caller's send
\* is accepted whatever is in flight; every suspended call can take its own
\* next step (end of its delay, completion of its transmission) whatever the
\* others are doing; a step advances one call only and leaves the others as
\* they are; and each call makes its own single sendMessage call.
C16_SendsIndependent ==
    /\ [](Running
          => /\ ~NotConnected => \A req \in SendRequests : ENABLED AcceptsSend(req)
             /\ \A e \in BagToSet(inflight) :
                   /\ e.pc = "delay" => ENABLED DelayElapsed(e)
                   /\ e.pc = "sending" => (e.calls = 1 /\ ENABLED SendSettled(e, "ok")))
    /\ [][ \/ inflight' = inflight
           \/ \E e \in BagToSet(inflight') :
                 inflight' = inflight (+) SetToBag({e})
           \/ \E e \in BagToSet(inflight) :
                 inflight = inflight' (+) SetToBag({e})
           \/ \E e \in BagToSet(inflight), f \in BagToSet(inflight') :
                 /\ inflight (+) SetToBag({f}) = inflight' (+) SetToBag({e})
                 /\ f = [e EXCEPT !.pc = "sending", !.to = e.formattedNumber,
                                  !.calls = 1] ]_vars

\* two callers in flight, each with its own delay, the one with the longer
\* delay already transmitting while the other still waits
C16_Witness ==
    \E a \in BagToSet(inflight), b \in BagToSet(inflight) :
       /\ a.req.ep = "send-otp" /\ b.req.ep = "notify-billing"
       /\ a.pc = "sending" /\ b.pc = "delay"
       /\ a.delay > b.delay
       /\ a.calls = 1 /\ b.calls = 0

\* C17: when SUPABASE_URL or SUPABASE_SERVICE_KEY is missing the process
\* never listens: it is not yet started or it has exited, no connection
\* attempt was begun, no timer set, no session made, no store call issued
\* and no request answered.
C17_ConfigErrorFatal ==
    (~env.url \/ ~env.key)
    => /\ proc \in {"boot", "exited"}
       /\ attempts = EmptyBag
       /\ timers = EmptyBag
       /\ sock = NoSock
       /\ saves = EmptyBag
       /\ log = <<>>
       /\ inflight = EmptyBag
       /\ resp = NoResp

C17_Witness ==
    /\ proc = "exited"
    /\ env.url
    /\ ~env.key
    /\ store # {}

\* C18, as claimed: the delay a send waits is an integer d with
\* 1000 <= d < 3000.
C18_DelayHalfOpen ==
    \A e \in BagToSet(inflight) :
       e.delay \in Int /\ DelayMin <= e.delay /\ e.delay < DelayMax

\* C18, as the code has it: the delay a send waits is an integer d with
\* 1000 <= d <= 3000, both ends included, and it is the value randomDelay
\* computes from the number drawn.
C18_DelayClosed ==
    /\ \A e \in BagToSet(inflight) :
          /\ e.delay \in DelayMin..DelayMax
          /\ \E k \in RandomDraws : e.delay = randomDelay(k)
    /\ \A k \in RandomDraws : randomDelay(k) \in DelayMin..DelayMax
    /\ randomDelay(0) = DelayMin
    /\ randomDelay(RandomScale - 1) = DelayMax

C18_Witness ==
    \E e \in BagToSet(inflight) : e.pc = "delay" /\ e.delay = DelayMax

\* loadState is called in this step: the store query leaves the process
LoadIssued == CopiesIn("load", attempts') > CopiesIn("load", attempts)

\* C19, as claimed: the store is read once per run of the process, at its
\* start; no later connection attempt of the run issues another load.
C19_LoadOncePerRun == [][LoadIssued => ~loaded]_vars

\* C19, as the code has it: the store is read once per connection attempt,
\* by the first attempt of a run and by every reconnect attempt alike: while
\* the process runs, an attempt issues its load when its version negotiation
\* has succeeded, never otherwise, and a settled load is not issued again by
\* that attempt.
C19_LoadPerAttempt ==
    [][ (proc' = "listening" \/ proc' = "stopping")
        => /\ LoadIssued
              <=> /\ CopiesIn("version", attempts') = CopiesIn("version", attempts) - 1
                  /\ log' # <<"connect-error: version">>
           /\ LoadIssued
              => /\ CopiesIn("load", attempts') = CopiesIn("load", attempts) + 1
                 /\ loaded'
           /\ LoadSettled
              => BagCardinality(attempts') = BagCardinality(attempts) - 1 ]_vars

\* a reconnect attempt after a close is reading the store again
C19_Witness ==
    /\ sock.st = "closed"
    /\ loaded
    /\ BagIn("load", attempts)

\* a creds.update event is handled in this step / an upsert settles in it
SaveIssued == BagCardinality(saves') = BagCardinality(saves) + 1
SaveSettled == BagCardinality(saves') = BagCardinality(saves) - 1

\* C20: once a session object exists, connecting, open or closed (logged
\* out included), a creds.update event is handled; it issues exactly one
\* save, of the state the session holds then, and neither the event nor the
\* completion of the save changes the flag, the lifecycle state of the
\* session, the timers, the attempts or the process.
C20_CredsUpdateNoTransition ==
    /\ []((Running /\ sock.st # "null" /\ BagCardinality(saves) < MaxSaves)
          => \A c \in MemCreds : ENABLED EvCredsUpdate(c))
    /\ [][ /\ SaveIssued
              => /\ \E s \in BagToSet(saves') :
                       /\ saves' = saves (+) SetToBag({s})
                       /\ s.arg = sock'.authState
                       /\ s.body = JsonState(s.arg)
                 /\ sock'.st = sock.st
                 /\ sock'.lastDisconnect = sock.lastDisconnect
                 /\ UNCHANGED <<proc, isConnected, timers, attempts, store>>
           /\ (SaveSettled /\ proc' # "boot")
              => /\ UNCHANGED <<isConnected, sock, timers, attempts>>
                 /\ proc' = proc ]_vars

\* after a logout: a save has just completed and another, of the state the
\* closed session holds, is still on its way
C20_Witness ==
    /\ loggedOut
    /\ sock.st = "closed"
    /\ log = <<"saved">>
    /\ \E s \in BagToSet(saves) : s.arg = sock.authState /\ s.arg.creds = "c2"

\* C21: when the session holds the credentials of its most recent
\* creds.update event and every save issued has completed successfully, the
\* stored snapshot is that state (as serialised): an older snapshot has not
\* overwritten a newer one.
C21_LatestSnapshotStored ==
    (Running /\ sock.authState.creds \in MemCreds /\ saves = EmptyBag)
    => store = {Row(JsonState(sock.authState))}

\* the calls that have made their sendMessage call and await its completion
Transmitting(bag) ==
    {e \in BagToSet(bag) : e.pc = "sending"}

\* sock.sendMessage is called in this step
TxIssued ==
    \E f \in Transmitting(inflight') :
       CopiesIn(f, inflight') > CopiesIn(f, inflight)

\* C22: whenever a sendMessage call is issued, the Connected flag is true
\* and the session it is issued on is open, whatever was handled while the
\* send was suspended in its delay.
C22_GateHoldsAtTransmission ==
    [][TxIssued => (isConnected /\ sock.st = "open")]_vars

\* sessions that have not closed: the current one, if it is live
LiveSessions == IF sock.st \in {"connecting", "open"} THEN 1 ELSE 0

\* C23: with sessions that emit 'close' at most once, live sessions,
\* pending reconnect timers and connection attempts in progress number at
\* most one in all: no two attempts run at once, and no timer is pending
\* while a session is live.
C23_SingleActiveSession ==
    LiveSessions + BagCardinality(timers) + BagCardinality(attempts) <= 1

\* a second session of the same run is connecting, alone: the first one was
\* open and closed, its timer fired and its attempt ended
C23_Witness ==
    /\ sock.st = "connecting"
    /\ isConnected
    /\ loaded
    /\ timers = EmptyBag
    /\ attempts = EmptyBag

====
